---- MODULE Spec2Model ----
(***************************************************************************)
(* A model of the A-share downloader (src/akshare_downloader.py): the      *)
(* SQLite store created by init_db, the watermark read get_last_date, the  *)
(* retrying fetch_daily / fetch_weekly / fetch_minute, append_data,        *)
(* download_stock and the thread pool of main; and of the web form         *)
(* (src/flask_app.py), which runs download_stock for the codes of a        *)
(* request one after another.                                              *)
(*                                                                         *)
(* The upstream provider (akshare) and SQLite are external.  The provider  *)
(* holds a bar for every trade date of a kind and answers a request for    *)
(* the inclusive window [start, end] with all of its bars in that window,  *)
(* or raises.  A storage call may raise OperationalError (database locked  *)
(* or unavailable) instead of running.                                     *)
(***************************************************************************)
EXTENDS Integers, Sequences, FiniteSets, Bags, TLC

\* ---------------------------------------------------------------- bounds
\* Trade dates are 1..MaxDate (YYYYMMDD strings in the code, compared as text).
MaxDate == 2
\* At most MaxCodes stock codes on one command line.
MaxCodes == 2
\* The program is started at most MaxRuns times on the same database file.
MaxRuns == 2

\* ------------------------------------------------------ program constants
MAX_THREADS == 300
\* stop_after_attempt(3) of the @retry decorators
STOP_AFTER_ATTEMPT == 3

Codes == {"A", "B"}
Dates == 1..MaxDate
\* --threads values: below the range, inside it, above it.
ThreadArgs == {0, 1, 301}
\* Python's None (the dates start at 1).
None == 0

\* Mutant: the weekly round is written before the daily round.
Tables_WeeklyFirst == <<"weekly", "daily", "minute">>

\* The three fetch/append rounds of download_stock, in source order.
Tables == <<"daily", "weekly", "minute">>
TableNames == {"daily", "weekly", "minute"}

VARIABLES
  db,        \* table name -> bag of rows [ts_code, d, v]
  args,      \* the parsed command line: [codes, start, end, threads]
             \* (flask_app: the symbols, start and end of the request)
  mainpc,    \* main: "submit" | "shutdown" | "closed"
             \* (flask_app download: "post" | "loop" | "responded")
  submitted, \* number of codes main has handed to pool.submit
  tasks,     \* index in codes -> the task's position and locals
  pbar,      \* the tqdm counter
  run,       \* how many times the program has been started
  cancelled, \* the caller has interrupted the run
  form,      \* flask_app: the codes of the posted form
  downloaded,\* flask_app: the list `downloaded` of the request
  response   \* flask_app: the body download() returned

\* The state of a request to flask_app.
http == <<form, downloaded, response>>

vars == <<db, args, mainpc, submitted, tasks, pbar, run, cancelled, http>>

\* ---------------------------------------------------------------- helpers
Max(S) == CHOOSE x \in S : \A y \in S : y <= x

Min2(a, b) == IF a < b THEN a ELSE b

Max2(a, b) == IF a > b THEN a ELSE b

\* A data frame: trade date -> value (one field stands for
\* open/high/low/close/volume/amount).
EmptyFrame == <<>>

Window(start, end) == {d \in Dates : start <= d /\ d <= end}

\* ------------------------------------------------------------------ init_db
\* CREATE TABLE IF NOT EXISTS ... : a fresh database file has three empty tables.
init_db == [t \in TableNames |-> EmptyBag]

\* Mutant: the tables are created without the PRIMARY KEY clause.
PrimaryKeyOk_NoKey(tbl, rows) == TRUE

\* PRIMARY KEY (ts_code, trade_date): the rows to insert are accepted only when
\* no stored row has the key of one of them.
PrimaryKeyOk(tbl, rows) ==
  \A r \in rows : \A s \in BagToSet(tbl) : ~(s.ts_code = r.ts_code /\ s.d = r.d)

\* -------------------------------------------------------------- get_last_date
\* SELECT MAX(date_col) FROM table WHERE ts_code = ?  (None when there is no row)
get_last_date(tbl, ts_code) ==
  LET ds == {r.d : r \in {s \in BagToSet(tbl) : s.ts_code = ts_code}}
  IN  IF ds = {} THEN None ELSE Max(ds)

\* Mutant: the watermark is ignored, every fetch starts at the requested start.
EffectiveStart_Requested(last, start) == start

\* sd = last_daily if last_daily else start
EffectiveStart(last, start) == IF last # None THEN last ELSE start

\* ------------------------------------------------------------------ fetch_*
\* Mutant: the stop condition is off by one (a fourth attempt is made).
stop_after_attempt_Late(n) == n > STOP_AFTER_ATTEMPT

\* tenacity: after a failed attempt number n, stop (raise RetryError) when
\* n >= 3, otherwise wait 2 seconds and call again.
stop_after_attempt(n) == n >= STOP_AFTER_ATTEMPT

\* The provider's trade dates of a kind: a weekly bar closes every second date.
Listed(kind) == IF kind = "weekly" THEN {d \in Dates : d % 2 = 0} ELSE Dates

\* The bar of the day the request ends on is still provisional (2); the bars
\* before it are final (1).
Quote(d, end) == IF d = end THEN 2 ELSE 1

\* ak.stock_zh_a_hist(symbol, period, start_date, end_date): the frame of the
\* provider's bars in the inclusive window.
Upstream(kind, start, end) ==
  [d \in (Listed(kind) \cap Window(start, end)) |-> Quote(d, end)]

\* ---------------------------------------------------------------- append_data
\* Mutant: every frame is tagged with the same code instead of the task's own.
Tagged_FirstCode(df, ts_code) == {[ts_code |-> "A", d |-> x, v |-> df[x]] : x \in DOMAIN df}

\* df.insert(0, "ts_code", ts_code)
Tagged(df, ts_code) == {[ts_code |-> ts_code, d |-> x, v |-> df[x]] : x \in DOMAIN df}

\* Mutant: to_sql(..., if_exists="replace"): the table is dropped and rebuilt
\* from the frame.
append_data_Replace(tbl, df, ts_code) ==
  IF DOMAIN df = {}
  THEN {[tbl |-> tbl, err |-> "none"]}
  ELSE {[tbl |-> tbl, err |-> "OperationalError"],
        [tbl |-> SetToBag(Tagged(df, ts_code)), err |-> "none"]}

\* Mutant: the "if df.empty: return" guard is missing, an empty frame goes to
\* the database like any other.
append_data_NoEmptyCheck(tbl, df, ts_code) ==
  {[tbl |-> tbl, err |-> "OperationalError"]} \cup
  (IF PrimaryKeyOk(tbl, Tagged(df, ts_code))
   THEN {[tbl |-> tbl (+) SetToBag(Tagged(df, ts_code)), err |-> "none"]}
   ELSE {[tbl |-> tbl, err |-> "IntegrityError"]})

\* Mutant: the rows are inserted one statement at a time outside a transaction:
\* on a primary-key conflict the rows that did not conflict stay stored.
append_data_Partial(tbl, df, ts_code) ==
  IF DOMAIN df = {}
  THEN {[tbl |-> tbl, err |-> "none"]}
  ELSE {[tbl |-> tbl, err |-> "OperationalError"]} \cup
       (IF PrimaryKeyOk(tbl, Tagged(df, ts_code))
        THEN {[tbl |-> tbl (+) SetToBag(Tagged(df, ts_code)), err |-> "none"]}
        ELSE {[tbl |-> tbl (+) SetToBag({r \in Tagged(df, ts_code) : PrimaryKeyOk(tbl, {r})}),
               err |-> "IntegrityError"]})

\* The outcomes of append_data(engine, table, df, ts_code, date_col) on table
\* content tbl: [tbl: the content afterwards, err: the exception or "none"].
\* An empty frame returns at once.  Otherwise to_sql issues one multi-row INSERT
\* in one transaction: it either inserts every row, or raises IntegrityError on
\* a primary-key conflict, or raises OperationalError; a raise leaves the table
\* as it was.
append_data(tbl, df, ts_code) ==
  IF DOMAIN df = {}
  THEN {[tbl |-> tbl, err |-> "none"]}
  ELSE {[tbl |-> tbl, err |-> "OperationalError"]} \cup
       (IF PrimaryKeyOk(tbl, Tagged(df, ts_code))
        THEN {[tbl |-> tbl (+) SetToBag(Tagged(df, ts_code)), err |-> "none"]}
        ELSE {[tbl |-> tbl, err |-> "IntegrityError"]})

\* ----------------------------------------------------------------------- main
\* Mutant: min and max are swapped in the clamp.
thread_count_Swapped(threads) == Max2(1, Max2(MAX_THREADS, threads))

\* thread_count = max(1, min(MAX_THREADS, args.threads))
thread_count(threads) == Max2(1, Min2(MAX_THREADS, threads))

\* The command lines parse_args accepts.
CommandLines ==
  [codes : UNION {[1..n -> Codes] : n \in 1..MaxCodes},
   start : Dates, end : Dates, threads : ThreadArgs]

\* The command lines of a first run.  No statement of the program looks into a
\* code, so the codes are interchangeable and the first one is taken to be "A".
ArgSets == {a \in CommandLines : a.codes[1] = "A"}

\* A task before pool.submit.
NewTask ==
  [pc |-> "pending", k |-> 1, sd |-> None, attempts |-> 0, df |-> EmptyFrame,
   err |-> "none", n |-> 0]

NewTasks(a) == [i \in 1..Len(a.codes) |-> NewTask]

TaskIds == DOMAIN tasks

\* Mutant: task reads the loop variable of main (late binding) instead of its
\* own argument.
code_LateBinding(i) == args.codes[Len(args.codes)]

\* The code a task was submitted with.
code(i) == args.codes[i]

table(i) == Tables[tasks[i].k]

\* Tasks a worker thread is executing.
Executing ==
  {i \in TaskIds : tasks[i].pc \in {"read", "fetch", "append", "finally", "update"}}

Init ==
  /\ db = init_db
  /\ args \in ArgSets
  /\ mainpc = "submit"
  /\ submitted = 0
  /\ tasks = NewTasks(args)
  /\ pbar = 0
  /\ run = 1
  /\ cancelled = FALSE
  /\ form = <<>>
  /\ downloaded = <<>>
  /\ response = "none"

\* for code in codes: pool.submit(task, code)
Submit ==
  /\ mainpc = "submit"
  /\ submitted < Len(args.codes)
  /\ submitted' = submitted + 1
  /\ tasks' = [tasks EXCEPT ![submitted + 1].pc = "queued"]
  /\ mainpc' = IF submitted + 1 = Len(args.codes) THEN "shutdown" ELSE "submit"
  /\ UNCHANGED <<db, args, pbar, run, cancelled, http>>

\* Mutant: the workers look at a cancellation flag before they take a work item.
Start_ChecksCancel(i) ==
  /\ ~cancelled
  /\ tasks[i].pc = "queued"
  /\ \A j \in TaskIds : j < i => tasks[j].pc \notin {"pending", "queued"}
  /\ Cardinality(Executing) < thread_count(args.threads)
  /\ tasks' = [tasks EXCEPT ![i].pc = "read"]
  /\ UNCHANGED <<db, args, mainpc, submitted, pbar, run, cancelled, http>>

\* A worker thread of ThreadPoolExecutor(max_workers=thread_count) takes the
\* oldest queued work item; the pool never runs more than max_workers threads.
Start(i) ==
  /\ tasks[i].pc = "queued"
  /\ \A j \in TaskIds : j < i => tasks[j].pc \notin {"pending", "queued"}
  /\ Cardinality(Executing) < thread_count(args.threads)
  /\ tasks' = [tasks EXCEPT ![i].pc = "read"]
  /\ UNCHANGED <<db, args, mainpc, submitted, pbar, run, cancelled, http>>

\* download_stock moves on to the next table, or returns.
NextTable(i) ==
  IF tasks[i].k < Len(Tables)
  THEN [tasks[i] EXCEPT !.pc = "read", !.k = @ + 1, !.df = EmptyFrame]
  ELSE [tasks[i] EXCEPT !.pc = "finally", !.df = EmptyFrame]

\* Mutant: a failed fetch is caught per table and download_stock goes on with
\* the next table.
Raise_Continue(i, exc) ==
  IF exc = "RetryError"
  THEN [NextTable(i) EXCEPT !.err = exc, !.sd = None]
  ELSE [tasks[i] EXCEPT !.pc = "finally", !.err = exc, !.sd = None, !.df = EmptyFrame]

\* Mutant: a storage error is swallowed inside download_stock, which goes on
\* with the next table.
Raise_SwallowStorage(i, exc) ==
  IF exc \in {"OperationalError", "IntegrityError"}
  THEN [NextTable(i) EXCEPT !.err = exc, !.sd = None]
  ELSE [tasks[i] EXCEPT !.pc = "finally", !.err = exc, !.sd = None, !.df = EmptyFrame]

\* An exception leaves download_stock; task's except clause prints it and the
\* finally clause follows.  The locals of download_stock are gone.
Raise(i, exc) ==
  [tasks[i] EXCEPT !.pc = "finally", !.err = exc, !.sd = None, !.df = EmptyFrame]

\* last = get_last_date(...); sd = last if last else start
GetLastDate(i) ==
  /\ tasks[i].pc = "read"
  /\ tasks' = [tasks EXCEPT ![i] =
       [@ EXCEPT !.pc = "fetch",
                 !.sd = EffectiveStart(get_last_date(db[table(i)], code(i)), args.start),
                 !.attempts = 0,
                 !.df = EmptyFrame]]
  /\ UNCHANGED <<db, args, mainpc, submitted, pbar, run, cancelled, http>>

\* The watermark query raises.
GetLastDateRaises(i) ==
  /\ tasks[i].pc = "read"
  /\ tasks' = [tasks EXCEPT ![i] = Raise(i, "OperationalError")]
  /\ UNCHANGED <<db, args, mainpc, submitted, pbar, run, cancelled, http>>

\* One attempt of fetch_*(code, sd, end) returns a frame.
FetchReturns(i) ==
  /\ tasks[i].pc = "fetch"
  /\ tasks' = [tasks EXCEPT ![i] =
       [@ EXCEPT !.pc = "append", !.sd = None, !.attempts = 0,
                 !.df = Upstream(table(i), tasks[i].sd, args.end)]]
  /\ UNCHANGED <<db, args, mainpc, submitted, pbar, run, cancelled, http>>

\* One attempt raises: retry after the fixed wait, or give up with RetryError.
FetchRaises(i) ==
  /\ tasks[i].pc = "fetch"
  /\ tasks' = [tasks EXCEPT ![i] =
       IF stop_after_attempt(tasks[i].attempts + 1)
       THEN [Raise(i, "RetryError") EXCEPT !.attempts = @ + 1]
       ELSE [@ EXCEPT !.attempts = @ + 1]]
  /\ UNCHANGED <<db, args, mainpc, submitted, pbar, run, cancelled, http>>

\* append_data(engine, table, df, code, date_col); time.sleep(sleep_time)
AppendData(i) ==
  /\ tasks[i].pc = "append"
  /\ \E out \in append_data(db[table(i)], tasks[i].df, code(i)) :
       /\ db' = [db EXCEPT ![table(i)] = out.tbl]
       /\ tasks' = [tasks EXCEPT ![i] =
            IF out.err = "none" THEN NextTable(i) ELSE Raise(i, out.err)]
  /\ UNCHANGED <<args, mainpc, submitted, pbar, run, cancelled, http>>

\* Mutant: pbar.update(1) is called without the lock.
LockFree_NoLock == TRUE

\* lock = threading.Lock(): no task is inside "with lock:".
LockFree == \A j \in TaskIds : tasks[j].pc # "update"

\* finally: with lock: ...  The task takes the lock and pbar.update(1) reads
\* the counter (self.n += 1 is a read followed by a write).
LockAcquire(i) ==
  /\ tasks[i].pc = "finally"
  /\ LockFree
  /\ tasks' = [tasks EXCEPT ![i] = [@ EXCEPT !.pc = "update", !.n = pbar]]
  /\ UNCHANGED <<db, args, mainpc, submitted, pbar, run, cancelled, http>>

\* pbar.update(1) writes the counter, the lock is released and task returns.
Finally(i) ==
  /\ tasks[i].pc = "update"
  /\ pbar' = tasks[i].n + 1
  /\ tasks' = [tasks EXCEPT ![i] = [@ EXCEPT !.pc = "done", !.n = 0]]
  /\ UNCHANGED <<db, args, mainpc, submitted, run, cancelled, http>>

\* pool.shutdown(wait=True); pbar.close()
Shutdown ==
  /\ mainpc = "shutdown"
  /\ \A i \in TaskIds : tasks[i].pc = "done"
  /\ mainpc' = "closed"
  /\ UNCHANGED <<db, args, submitted, tasks, pbar, run, cancelled, http>>

\* The caller interrupts the run (Ctrl-C) while main waits in
\* pool.shutdown(wait=True).  main and task hold no flag or event and install
\* no handler, and the with block's exit calls shutdown(wait=True) again,
\* without cancel_futures: the queue is drained as before.
Cancel ==
  /\ mainpc = "shutdown"
  /\ ~cancelled
  /\ cancelled' = TRUE
  /\ UNCHANGED <<db, args, mainpc, submitted, tasks, pbar, run, http>>

\* One code on the command line, one worker thread.
SingleArgs == {a \in CommandLines : Len(a.codes) = 1 /\ a.threads = 1}

\* The program is started again on the same database file (stock_data.db stays
\* in the current directory), with one code on the command line.
Restart ==
  /\ mainpc = "closed"
  /\ run < MaxRuns
  /\ \E a \in SingleArgs :
       /\ args' = a
       /\ tasks' = NewTasks(a)
  /\ mainpc' = "submit"
  /\ submitted' = 0
  /\ pbar' = 0
  /\ run' = run + 1
  /\ UNCHANGED <<db, cancelled, http>>

\* One run of main.
Next ==
  \/ Submit
  \/ Shutdown
  \/ \E i \in TaskIds : Start(i)
  \/ \E i \in TaskIds : GetLastDate(i)
  \/ \E i \in TaskIds : GetLastDateRaises(i)
  \/ \E i \in TaskIds : FetchReturns(i)
  \/ \E i \in TaskIds : FetchRaises(i)
  \/ \E i \in TaskIds : AppendData(i)
  \/ \E i \in TaskIds : LockAcquire(i)
  \/ \E i \in TaskIds : Finally(i)

\* One run of the program on a fresh database file.
Spec == Init /\ [][Next]_vars

\* One run of main in which every thread that can take a step eventually takes
\* one: the workers and main are scheduled, and every call to the provider and
\* to the database returns or raises.
SpecFair == Spec /\ WF_vars(Next)

\* One run of main during which the caller may signal it to stop.
NextCancel == Next \/ Cancel

SpecCancel == Init /\ [][NextCancel]_vars

\* Successive runs of the program, one code each, on the same database file.
InitRerun == Init /\ args \in SingleArgs

NextRerun == Next \/ Restart

SpecRerun == InitRerun /\ [][NextRerun]_vars

\* ------------------------------------------------------------------ flask_app
\* A string is a sequence of characters.
DigitChars == {"0", "1", "2", "3", "4", "5", "6", "7", "8", "9"}

\* The pieces of the form's text field between the ";" separators that the
\* model posts: digits with a blank around them, digits, the same number with a
\* leading zero, a piece that is no number, and a number of seven digits.  (An
\* uploaded file only adds all-digit entries to the same list.)
FormPieces ==
  {<<" ", "6">>, <<"1">>, <<"0", "1">>, <<"x", "1">>,
   <<"1", "2", "3", "4", "5", "6", "7">>}

Forms == UNION {[1..n -> FormPieces] : n \in 1..MaxCodes}

RECURSIVE lstrip(_)
lstrip(c) == IF c # <<>> /\ Head(c) = " " THEN lstrip(Tail(c)) ELSE c

RECURSIVE rstrip(_)
rstrip(c) ==
  IF c # <<>> /\ c[Len(c)] = " " THEN rstrip(SubSeq(c, 1, Len(c) - 1)) ELSE c

\* str.strip()
strip(c) == rstrip(lstrip(c))

\* str.isdigit(): not empty and every character a digit
isdigit(c) == c # <<>> /\ \A x \in DOMAIN c : c[x] \in DigitChars

\* str.zfill(width) of a string without sign
RECURSIVE zfill(_, _)
zfill(c, width) == IF Len(c) >= width THEN c ELSE zfill(<<"0">> \o c, width)

\* str.startswith of one character
startswith(c, x) == c # <<>> /\ Head(c) = x

\* adapt_code(code): "" for a string that is no number, otherwise the exchange
\* prefix and the number filled to six digits.
adapt_code(c0) ==
  LET c == strip(c0)
      prefix == IF startswith(c, "6") THEN <<"s", "h">> ELSE <<"s", "z">>
  IN  IF ~isdigit(c) THEN <<>> ELSE prefix \o zfill(c, 6)

\* codes.extend([c.strip() for c in text.split(";") if c.strip()])
Stripped(f) == SelectSeq([x \in DOMAIN f |-> strip(f[x])], LAMBDA c : c # <<>>)

\* {c for c in codes if c.isdigit()}
DigitCodes(f) == {Stripped(f)[x] : x \in {y \in DOMAIN Stripped(f) : isdigit(Stripped(f)[y])}}

\* The lists a set can be iterated as.
Orders(S) == {q \in [1..Cardinality(S) -> S] : \A x, y \in DOMAIN q : x # y => q[x] # q[y]}

\* A POST to /download arrives; engine = init_db(...) at import.
InitFlask ==
  /\ db = init_db
  /\ form \in Forms
  /\ args = [codes |-> <<>>, start |-> 1, end |-> 1]
  /\ mainpc = "post"
  /\ submitted = 0
  /\ tasks = <<>>
  /\ pbar = 0
  /\ run = 1
  /\ cancelled = FALSE
  /\ downloaded = <<>>
  /\ response = "none"

\* symbol = adapt_code(c) for the codes in loop order; "if not symbol: continue"
\* skips the empty ones.
Symbols(q) == SelectSeq([x \in DOMAIN q |-> adapt_code(q[x])], LAMBDA c : c # <<>>)

\* download() up to its loop: the codes of the form are stripped, the numbers
\* among them are put into a set and the set is iterated in some order; start
\* and end are read from the form.  args holds the symbols the loop will hand
\* to download_stock, one task each.
FlaskParse ==
  /\ mainpc = "post"
  /\ \E q \in Orders(DigitCodes(form)) : \E start \in Dates : \E end \in Dates :
       /\ args' = [codes |-> Symbols(q), start |-> start, end |-> end]
       /\ tasks' = [i \in DOMAIN Symbols(q) |-> NewTask]
  /\ mainpc' = "loop"
  /\ UNCHANGED <<db, submitted, pbar, run, cancelled, form, downloaded, response>>

\* for c in codes: ... download_stock(engine, symbol, start, end, DEFAULT_SLEEP)
\* is called for the next symbol once the call before it has been dealt with.
FlaskCall(i) ==
  /\ mainpc = "loop"
  /\ tasks[i].pc = "pending"
  /\ \A j \in TaskIds : j < i => tasks[j].pc = "done"
  /\ tasks' = [tasks EXCEPT ![i].pc = "read"]
  /\ UNCHANGED <<db, args, mainpc, submitted, pbar, run, cancelled, http>>

\* download_stock has returned (downloaded.append(symbol)) or raised (except
\* Exception: print); the loop goes on.
FlaskReturn(i) ==
  /\ mainpc = "loop"
  /\ tasks[i].pc = "finally"
  /\ downloaded' = IF tasks[i].err = "none" THEN Append(downloaded, code(i))
                                           ELSE downloaded
  /\ tasks' = [tasks EXCEPT ![i].pc = "done"]
  /\ UNCHANGED <<db, args, mainpc, submitted, pbar, run, cancelled, form, response>>

\* return f"Downloaded {len(downloaded)} stocks." if downloaded
\*        else "No valid codes provided."
FlaskRespond ==
  /\ mainpc = "loop"
  /\ \A i \in TaskIds : tasks[i].pc = "done"
  /\ response' = IF downloaded # <<>>
                 THEN [text |-> "Downloaded stocks.", n |-> Len(downloaded)]
                 ELSE [text |-> "No valid codes provided."]
  /\ mainpc' = "responded"
  /\ UNCHANGED <<db, args, submitted, tasks, pbar, run, cancelled, form, downloaded>>

\* One request to /download.
NextFlask ==
  \/ FlaskParse
  \/ FlaskRespond
  \/ \E i \in TaskIds : FlaskCall(i)
  \/ \E i \in TaskIds : GetLastDate(i)
  \/ \E i \in TaskIds : GetLastDateRaises(i)
  \/ \E i \in TaskIds : FetchReturns(i)
  \/ \E i \in TaskIds : FetchRaises(i)
  \/ \E i \in TaskIds : AppendData(i)
  \/ \E i \in TaskIds : FlaskReturn(i)

SpecFlask == InitFlask /\ [][NextFlask]_vars

\* ------------------------------------------------------------------- claims
\* The stored rows of a code in a table, and the trade dates they carry.
RowsIn(tbl, c) == {r \in BagToSet(tbl) : r.ts_code = c}

RowsOf(t, c) == RowsIn(db[t], c)

DatesOf(t, c) == {r.d : r \in RowsOf(t, c)}

\* The code occurs once on the command line.
Once(c) == Cardinality({j \in TaskIds : args.codes[j] = c}) = 1

\* Task i takes the step that runs append_data.
AppendStep(i) == tasks[i].pc = "append" /\ tasks'[i] # tasks[i]

\* C1: a write of a batch holding a key that is already stored succeeds and
\* leaves the batch's values under that key, and a write of a batch of new keys
\* only adds exactly as many rows as the batch has (storage being available).
C1_UpsertCorrect ==
  [][\A i \in TaskIds :
       (AppendStep(i) /\ tasks'[i].err # "OperationalError") =>
         LET t == table(i)
             rows == Tagged(tasks[i].df, args.codes[i])
         IN  /\ tasks'[i].err = "none"
             /\ \A r \in rows : CopiesIn(r, db'[t]) = 1
             /\ \A r \in BagToSet(db'[t]) :
                  \A q \in rows : (r.ts_code = q.ts_code /\ r.d = q.d) => r = q
             /\ (DOMAIN tasks[i].df \cap DatesOf(t, args.codes[i]) = {}) =>
                  BagCardinality(db'[t]) = BagCardinality(db[t]) + Cardinality(rows)
    ]_vars

\* C2: with one worker thread and the same code twice in a row on the command
\* line (download_stock run twice in succession with the same arguments, the
\* first run without a transient fetch or storage failure), no step of the
\* second run changes the row count of any table, and no table holds a row
\* twice.
SecondRun(i) ==
  /\ i > 1
  /\ thread_count(args.threads) = 1
  /\ args.codes[i] = args.codes[i - 1]
  /\ tasks[i - 1].err \notin {"RetryError", "OperationalError"}
  /\ i \in Executing

C2_Idempotent ==
  [][\A i \in TaskIds :
       SecondRun(i) =>
         \A t \in TableNames :
           /\ BagCardinality(db'[t]) = BagCardinality(db[t])
           /\ \A r \in BagToSet(db'[t]) : CopiesIn(r, db'[t]) = 1
    ]_vars

\* download_stock has ended for the second time and the first run had stored
\* daily rows.
C2_Witness ==
  \E i \in TaskIds :
    /\ SecondRun(i)
    /\ tasks[i].pc = "finally"
    /\ tasks[i - 1].err = "none"
    /\ RowsOf("daily", args.codes[i]) # {}

\* C3: the window a fetch requests starts at the greatest stored date of the
\* code in that table when the watermark read found a row, and at the requested
\* start when it found none; it ends at the requested end.
C3_Resume ==
  [][\A i \in TaskIds :
       /\ (tasks[i].pc = "read" /\ tasks'[i].pc = "fetch") =>
            LET S == DatesOf(table(i), args.codes[i])
            IN  /\ S = {} => tasks'[i].sd = args.start
                /\ S # {} => (tasks'[i].sd \in S /\ \A d \in S : d <= tasks'[i].sd)
       /\ (tasks[i].pc = "fetch" /\ tasks'[i].pc = "append") =>
            \A d \in Dates :
              d \in DOMAIN tasks'[i].df <=>
                (d \in Listed(table(i)) /\ tasks[i].sd <= d /\ d <= args.end)
    ]_vars

\* Rows are stored up to T, the requested start is before T, and the fetch is
\* about to request the window from T.
C3_Witness ==
  \E i \in TaskIds :
    /\ tasks[i].pc = "fetch"
    /\ DatesOf(table(i), args.codes[i]) # {}
    /\ tasks[i].sd = Max(DatesOf(table(i), args.codes[i]))
    /\ args.start < tasks[i].sd

\* C4: when rows are stored up to T and the upstream has answered the window
\* [T, end] with the bar at T and newer bars, the write completes without error
\* and every bar of the answer is in the table afterwards.
C4_OverlapAbsorbed ==
  [][\A i \in TaskIds :
       LET t == table(i)
           S == DatesOf(t, args.codes[i])
           df == tasks[i].df
       IN  (/\ AppendStep(i)
            /\ tasks'[i].err # "OperationalError"
            /\ S # {}
            /\ Max(S) \in DOMAIN df
            /\ \E d \in DOMAIN df : d > Max(S)) =>
             /\ tasks'[i].err = "none"
             /\ \A r \in Tagged(df, args.codes[i]) : r \in BagToSet(db'[t])
    ]_vars

\* What a run on a fresh database stores for a code in a table.
Synced(t, c) == Tagged(Upstream(t, args.start, args.end), c)

PoolGoesOn == mainpc = "closed" \/ ENABLED Next

C6_CrossEntityIsolation ==
  []PoolGoesOn /\
  [][\A i \in TaskIds :
       /\ tasks'[i].err # "none" => tasks'[i].pc \in {"finally", "update", "done"}
       /\ tasks'[i] # tasks[i] =>
            \A t \in TableNames : \A c \in Codes \ {args.codes[i]} :
              RowsIn(db'[t], c) = RowsIn(db[t], c)
       /\ mainpc' = "closed" => tasks'[i].pc = "done"
       /\ (tasks'[i].pc = "done" /\ tasks'[i].err = "none" /\ Once(args.codes[i])) =>
            \A t \in TableNames : RowsIn(db'[t], args.codes[i]) = Synced(t, args.codes[i])
    ]_vars

\* One task failed, another one ended fully synchronized, main has closed.
C6_Witness ==
  /\ mainpc = "closed"
  /\ \E i, j \in TaskIds :
       /\ args.codes[i] # args.codes[j]
       /\ tasks[i].err # "none"
       /\ tasks[j].err = "none"
       /\ RowsOf("daily", args.codes[j]) # {}
       /\ RowsOf("minute", args.codes[j]) # {}

\* C7: a fetch makes at most 3 attempts: an attempt is made only after fewer
\* than 3, a failed attempt is retried only when it was not the third, the
\* fetch raises RetryError exactly at the third failure, and an attempt that
\* returns ends the fetch with the upstream's answer.
C7_RetryBound ==
  [][\A i \in TaskIds :
       (tasks[i].pc = "fetch" /\ tasks'[i] # tasks[i]) =>
         /\ tasks[i].attempts < 3
         /\ tasks'[i].pc = "fetch" =>
              (tasks'[i].attempts = tasks[i].attempts + 1 /\ tasks'[i].attempts < 3)
         /\ tasks'[i].err = "RetryError" =>
              (tasks[i].attempts = 2 /\ tasks'[i].attempts = 3)
         /\ tasks'[i].err = "none" => tasks'[i].pc \in {"fetch", "append"}
         /\ tasks'[i].pc = "append" =>
              tasks'[i].df = Upstream(table(i), tasks[i].sd, args.end)
    ]_vars

\* A fetch has given up after its third attempt.
C7_Witness ==
  \E i \in TaskIds : tasks[i].err = "RetryError" /\ tasks[i].attempts = 3

\* C8: the number of tasks being executed never exceeds the requested thread
\* count clamped to 1..300.
Clamped(n) == IF n < 1 THEN 1 ELSE IF n > 300 THEN 300 ELSE n

C8_ConcurrencyBound == Cardinality(Executing) <= Clamped(args.threads)

\* As many tasks as threads are executing and another one waits in the queue.
C8_Witness ==
  /\ Cardinality(Executing) = Clamped(args.threads)
  /\ \E i \in TaskIds : tasks[i].pc = "queued"

\* C9: no table holds two rows with the same (ts_code, date) key.
C9_KeyUnique ==
  \A t \in TableNames :
    \A r \in BagToSet(db[t]) :
      /\ CopiesIn(r, db[t]) = 1
      /\ \A q \in BagToSet(db[t]) : (q.ts_code = r.ts_code /\ q.d = r.d) => q = r

\* Two tasks of one code ran at the same time and the later insert was refused.
C9_Witness ==
  \E i, j \in TaskIds :
    /\ i # j
    /\ args.codes[i] = args.codes[j]
    /\ thread_count(args.threads) > 1
    /\ tasks[j].err = "IntegrityError"
    /\ RowsOf(table(j), args.codes[j]) # {}

\* C10: append_data on an empty frame leaves the database as it is, raises
\* nothing, and download_stock goes on with the next kind.
C10_EmptyNoOp ==
  [][\A i \in TaskIds :
       (AppendStep(i) /\ tasks[i].df = EmptyFrame) =>
         /\ db' = db
         /\ tasks'[i].err = "none"
         /\ IF tasks[i].k < 3
            THEN tasks'[i].pc = "read" /\ tasks'[i].k = tasks[i].k + 1
            ELSE tasks'[i].pc = "finally"
    ]_vars

\* The daily answer was empty, nothing was stored for it, and the task has gone
\* on to the weekly table without error.
C10_Witness ==
  \E i \in TaskIds :
    /\ Once(args.codes[i])
    /\ Upstream("daily", args.start, args.end) = EmptyFrame
    /\ tasks[i].k = 2
    /\ tasks[i].err = "none"
    /\ RowsOf("daily", args.codes[i]) = {}

\* C11: the progress counter equals the number of tasks that have finished (it
\* goes up by one exactly when a task finishes, with or without an error, and
\* no increment of concurrent workers is lost), and when main has closed the
\* pool it equals the number of codes submitted.
Finished == {i \in TaskIds : tasks[i].pc = "done"}

C11_ProgressCount ==
  /\ pbar = Cardinality(Finished)
  /\ mainpc = "closed" => (pbar = Len(args.codes) /\ pbar = submitted)

\* Two workers ran at the same time, one task failed and one succeeded, the
\* pool has closed and both were counted.
C11_Witness ==
  /\ mainpc = "closed"
  /\ thread_count(args.threads) > 1
  /\ Len(args.codes) > 1
  /\ \E i, j \in TaskIds : tasks[i].err # "none" /\ tasks[j].err = "none"

\* C12: a task whose watermark read or write raised a storage error has left
\* download_stock for its finally clause (the error was caught at the task):
\* the kind that failed and the kinds after it are neither fetched nor stored,
\* the kinds before it stay stored, and the run can still go on until main has
\* closed the pool.
StorageErrors == {"OperationalError", "IntegrityError"}

C12_StorageFailureEndsTask ==
  /\ PoolGoesOn
  /\ \A i \in TaskIds :
       tasks[i].err \in StorageErrors =>
         /\ tasks[i].pc \in {"finally", "update", "done"}
         /\ tasks[i].df = EmptyFrame
         /\ Once(args.codes[i]) =>
              \A j \in DOMAIN Tables :
                RowsOf(Tables[j], args.codes[i]) =
                  IF j < tasks[i].k THEN Synced(Tables[j], args.codes[i]) ELSE {}

\* The weekly round of one task met a storage error after its daily rows were
\* stored; the pool went on, another task stored its minute rows, and main has
\* closed.
C12_Witness ==
  /\ mainpc = "closed"
  /\ \E i, j \in TaskIds :
       /\ args.codes[i] # args.codes[j]
       /\ tasks[i].err = "OperationalError"
       /\ tasks[i].k = 2
       /\ RowsOf("daily", args.codes[i]) # {}
       /\ tasks[j].err = "none"
       /\ RowsOf("minute", args.codes[j]) # {}

\* C13: a call of append_data either stores every row of its frame and raises
\* nothing, or raises and leaves the table exactly as it was; the other tables
\* are not touched.
C13_AtomicWrite ==
  [][\A i \in TaskIds :
       AppendStep(i) =>
         LET t == table(i)
             rows == Tagged(tasks[i].df, args.codes[i])
         IN  /\ \A u \in TableNames \ {t} : db'[u] = db[u]
             /\ IF tasks'[i].err = "none"
                THEN db'[t] = db[t] (+) SetToBag(rows)
                ELSE db'[t] = db[t]
    ]_vars

\* A later run fetched the stored bar together with a newer one; the write was
\* refused on the stored key and the newer bar is not in the table either.
C13_Witness ==
  /\ run > 1
  /\ \E i \in TaskIds :
       /\ tasks[i].err = "IntegrityError"
       /\ tasks[i].k = 1
       /\ DatesOf("daily", args.codes[i]) # {}
       /\ args.end > Max(DatesOf("daily", args.codes[i]) \cup {0})

\* C14: a task starts with Daily; every step of download_stock acts on the kind
\* the task is at (the watermark is read from, the frame fetched for, and the
\* rows written to that kind's table only); the task never goes back to an
\* earlier kind, and goes to the next one (Daily, then Weekly, then Minute)
\* only from a completed write.  Tasks are not ordered among each other.
Kind(k) == IF k = 1 THEN "daily" ELSE IF k = 2 THEN "weekly" ELSE "minute"

C14_KindOrder ==
  [][\A i \in TaskIds :
       LET t == tasks[i]
           u == tasks'[i]
           c == args.codes[i]
       IN  /\ t.pc \in {"pending", "queued"} => t.k = 1
           /\ u.k \in {t.k, t.k + 1}
           /\ u.k = t.k + 1 => (t.pc = "append" /\ u.pc = "read" /\ u.err = "none")
           /\ (t.pc = "read" /\ u.pc = "fetch") =>
                u.sd = EffectiveStart(get_last_date(db[Kind(t.k)], c), args.start)
           /\ (t.pc = "fetch" /\ u.pc = "append") =>
                u.df = Upstream(Kind(t.k), t.sd, args.end)
           /\ (t.pc = "append" /\ u # t) =>
                /\ \A x \in TableNames \ {Kind(t.k)} : db'[x] = db[x]
                /\ u.err = "none" =>
                     db'[Kind(t.k)] = db[Kind(t.k)] (+) SetToBag(Tagged(t.df, c))
    ]_vars

\* A task submitted later is at its minute round while an earlier one is still
\* at its daily round, and the later one has stored daily and minute rows.
C14_Witness ==
  \E i, j \in TaskIds :
    /\ i < j
    /\ args.codes[i] # args.codes[j]
    /\ tasks[i].pc = "fetch" /\ tasks[i].k = 1
    /\ tasks[j].pc = "append" /\ tasks[j].k = 3
    /\ RowsOf("daily", args.codes[j]) # {}
    /\ RowsOf("daily", args.codes[i]) = {}

\* C15 (as claimed): once the caller has signalled cancellation, no queued
\* task is dispatched any more.
C15_CancelStopsDispatch ==
  [][cancelled =>
       \A i \in TaskIds : ~(tasks[i].pc = "queued" /\ tasks'[i].pc = "read")
    ]_vars

\* C15 (amended): the pool has no cancellation.  After the caller's signal the
\* oldest queued task can still be dispatched whenever a worker is free, a task
\* in flight goes on, and main closes the pool only when every submitted task
\* has finished and has been counted.
C15_SignalIgnored ==
  cancelled =>
    /\ \A i \in TaskIds :
         (/\ tasks[i].pc = "queued"
          /\ \A j \in TaskIds : j < i => tasks[j].pc \notin {"pending", "queued"}
          /\ Cardinality(Executing) < Clamped(args.threads)) => ENABLED Start(i)
    /\ \A i \in Executing :
         tasks[i].pc # "finally" =>
           ENABLED (GetLastDate(i) \/ FetchReturns(i) \/ AppendData(i) \/ Finally(i))
    /\ mainpc = "closed" =>
         (pbar = Len(args.codes) /\ \A i \in TaskIds : tasks[i].pc = "done")

\* The caller has signalled while a task was still queued, and a worker is free
\* to take it.
C15_Witness ==
  /\ cancelled
  /\ \E i \in TaskIds : tasks[i].pc = "queued" /\ ENABLED Start(i)

\* C16: a request runs download_stock for one symbol at a time; when it has
\* responded every symbol of the form has been processed, whatever failed
\* before it; and the response reports the number of symbols whose
\* download_stock ended without error.
Succeeded == {i \in TaskIds : tasks[i].pc = "done" /\ tasks[i].err = "none"}

C16_ResultCount ==
  /\ Cardinality(Executing) <= 1
  /\ mainpc = "responded" =>
       /\ \A i \in TaskIds : tasks[i].pc = "done"
       /\ Len(downloaded) = Cardinality(Succeeded)
       /\ response = [text |-> "Downloaded stocks.", n |-> Cardinality(Succeeded)]

\* C17: download_stock is only ever called with a well-formed identifier (an
\* exchange prefix and six digits, "like sz000001"), and only rows of
\* well-formed identifiers are stored.
WellFormed(c) ==
  /\ Len(c) = 8
  /\ SubSeq(c, 1, 2) \in {<<"s", "h">>, <<"s", "z">>}
  /\ isdigit(SubSeq(c, 3, 8))

C17_MalformedRejected ==
  /\ \A i \in TaskIds : tasks[i].pc # "pending" => WellFormed(args.codes[i])
  /\ \A t \in TableNames : \A r \in BagToSet(db[t]) : WellFormed(r.ts_code)

\* C18: a task is dispatched once (from the queue, and a finished task stays
\* finished), and no two tasks being executed have the same code.
C18_ExclusiveOwnership ==
  /\ [](\A i, j \in Executing : i # j => args.codes[i] # args.codes[j])
  /\ [][\A i \in TaskIds :
          /\ (tasks[i].pc # "read" /\ tasks'[i].pc = "read" /\ tasks'[i].k = 1) =>
               tasks[i].pc = "queued"
          /\ tasks[i].pc = "done" => tasks'[i].pc = "done"
       ]_vars

\* C19: under fair scheduling the run ends: main closes the pool with every
\* task finished.  A fetch never makes more than 3 attempts for a kind, and a
\* task never more than 9 in all: Rank is an upper bound of the attempts a task
\* has made so far (3 for every kind it is through with, plus the attempts of
\* the fetch it is in); it never exceeds 9, no step of the task lowers it, and
\* every attempt raises it by at least one.
Rank(t) ==
  IF t.pc \in {"pending", "queued"} THEN 0
  ELSE IF t.pc = "read" THEN 3 * (t.k - 1)
  ELSE IF t.pc = "fetch" THEN 3 * (t.k - 1) + t.attempts
  ELSE IF t.pc = "append" THEN 3 * t.k
  ELSE 9

C19_TerminatesBounded ==
  /\ <>(mainpc = "closed" /\ \A i \in TaskIds : tasks[i].pc = "done")
  /\ [](\A i \in TaskIds : tasks[i].attempts <= 3 /\ Rank(tasks[i]) <= 9)
  /\ [][\A i \in TaskIds :
          /\ Rank(tasks'[i]) >= Rank(tasks[i])
          /\ (tasks[i].pc = "fetch" /\ tasks'[i] # tasks[i]) =>
               (tasks[i].attempts < 3 /\ Rank(tasks'[i]) >= Rank(tasks[i]) + 1)
       ]_vars

\* The pool has closed after several tasks; one of them gave up on its minute
\* fetch at the third attempt, after its daily and weekly fetches.
C19_Witness ==
  /\ mainpc = "closed"
  /\ Len(args.codes) > 1
  /\ \A i \in TaskIds : tasks[i].pc = "done"
  /\ \E i \in TaskIds :
       tasks[i].err = "RetryError" /\ tasks[i].k = 3 /\ tasks[i].attempts = 3

\* C20: no step removes a stored row or lowers the greatest stored date of a
\* code in a table; the database changes only in a step of a task, and the
\* rows such a step adds carry the task's code, go to the table of the kind the
\* task is at and are bars of that kind; the rows of the other codes and the
\* other tables stay as they are.
C20_MonotoneFrame ==
  [][/\ \A t \in TableNames :
          /\ \A r \in BagToSet(db[t]) : CopiesIn(r, db'[t]) >= CopiesIn(r, db[t])
          /\ \A c \in Codes : \A r \in RowsIn(db[t], c) :
               \E q \in RowsIn(db'[t], c) : q.d >= r.d
     /\ db' # db => \E i \in TaskIds : AppendStep(i)
     /\ \A i \in TaskIds :
          AppendStep(i) =>
            \A t \in TableNames :
              /\ \A r \in BagToSet(db'[t]) :
                   CopiesIn(r, db'[t]) > CopiesIn(r, db[t]) =>
                     /\ r.ts_code = args.codes[i]
                     /\ t = Kind(tasks[i].k)
                     /\ r.d \in Listed(t)
              /\ \A c \in Codes \ {args.codes[i]} : RowsIn(db'[t], c) = RowsIn(db[t], c)
              /\ t # Kind(tasks[i].k) => db'[t] = db[t]
    ]_vars

\* A code was synchronized a second time after its first sync had ended: the
\* second write was refused and every row of the first sync is still stored.
C20_Witness ==
  \E i, j \in TaskIds :
    /\ i < j
    /\ args.codes[i] = args.codes[j]
    /\ tasks[i].pc = "done" /\ tasks[i].err = "none"
    /\ tasks[j].pc = "done" /\ tasks[j].err = "IntegrityError"
    /\ \A t \in TableNames : RowsOf(t, args.codes[i]) = Synced(t, args.codes[i])
    /\ RowsOf("weekly", args.codes[i]) # {}

====
